---------------------------- MODULE Spec2Model ----------------------------
(***************************************************************************)
(* Locale resolution, locale-prefix routing, path translation and message  *)
(* loading of the next-intl set-up that the repository's tutorial builds   *)
(* (src/unnamed/part_000: src/i18n/routing.ts, src/i18n/request.ts,        *)
(* src/middleware.ts and the messages/*.json files).                       *)
(*                                                                         *)
(* A request path is the sequence of its segments: "/" is << >>,           *)
(* "/de/about" is <<"de", "about">>.                                       *)
(***************************************************************************)
EXTENDS Naturals, Sequences, FiniteSets, TLC

VARIABLES
    \* Locale-Prefix Router: one client talking to the middleware
    pref,        \* the client's NEXT_LOCALE cookie (LocalePreference)
    prevPref,    \* the cookie as it was before the last request
    path,        \* path of the last request
    accept,      \* accept-language hint of the last request
    state,       \* router state the last request was handled in
    response,    \* response to the last request
    hops,        \* redirects followed since the last request the client typed
    lastLocale,  \* locale of the most recent non-excluded request
    prevLocale,  \* lastLocale as it was before the last request
    \* Request Locale Resolver: one call of getRequestConfig
    rSeg, rPref, rAccept, rDone, rOut,
    \* Path Translator: the routing table and one toPath / fromPath round
    table, tpRoute, tpLocale, tpDone, tpOut, fpDone, fpOut,
    \* Message lookup: one translate call
    tLocale, tNamespace, tKey, tDone, tOut,
    \* Message Loader: concurrent requests running getRequestConfig
    pc,          \* where each request is in getRequestConfig
    loc,         \* each request's local variable `locale`
    msgs,        \* the messages each request returned
    cache,       \* the loaded message modules, by file
    raced        \* some load completed while another of the same file was under way

routerVars == <<pref, prevPref, path, accept, state, response, hops,
                lastLocale, prevLocale>>
resolveVars == <<rSeg, rPref, rAccept, rDone, rOut>>
pathVars == <<table, tpRoute, tpLocale, tpDone, tpOut, fpDone, fpOut>>
translateVars == <<tLocale, tNamespace, tKey, tDone, tOut>>
loadVars == <<pc, loc, msgs, cache, raced>>
vars == <<routerVars, resolveVars, pathVars, translateVars, loadVars>>

-----------------------------------------------------------------------------
(* Bounds of the model *)

MaxPathLen == 2
MaxHops == 3
MaxRequests == 3

-----------------------------------------------------------------------------
(* src/i18n/routing.ts *)

locales == {"en", "de", "pl"}
defaultLocale == "en"

\* an absent value: undefined, or the empty string, both falsy in `!locale`
Absent == "<absent>"

\* what a locale hint can be: absent, a supported locale, an unsupported string
Hints == {Absent} \cup locales \cup {"fr", "xx"}

-----------------------------------------------------------------------------
(* src/i18n/request.ts *)

\* the messages/*.json files of the project
MessageFiles == {<<"messages", "en.json">>, <<"messages", "de.json">>,
                 <<"messages", "pl.json">>}

JsonName(locale) ==
    CASE locale = "en" -> "en.json"
      [] locale = "de" -> "de.json"
      [] locale = "pl" -> "pl.json"
      [] locale = "fr" -> "fr.json"
      [] locale = "xx" -> "xx.json"
      [] OTHER -> ".json"

\* mutant of RequestLocale: the language header is read before the cookie
RequestLocaleHeaderFirst(seg, storedPreference, acceptLanguageHint) ==
    IF seg # Absent THEN seg
    ELSE IF acceptLanguageHint \in locales THEN acceptLanguageHint
    ELSE IF storedPreference \in locales THEN storedPreference
    ELSE Absent

\* the request locale handed to getRequestConfig: the [locale] segment of the
\* URL, or what the browser supplies (the remembered cookie, else the
\* language header) when there is no segment
RequestLocale(seg, storedPreference, acceptLanguageHint) ==
    IF seg # Absent THEN seg
    ELSE IF storedPreference \in locales THEN storedPreference
    ELSE IF acceptLanguageHint \in locales THEN acceptLanguageHint
    ELSE Absent

\* mutant of FallbackLocale: the validity test is dropped
FallbackLocaleUnchecked(requestLocale) ==
    IF requestLocale = Absent THEN defaultLocale ELSE requestLocale

\* if (!locale || !routing.locales.includes(locale)) locale = defaultLocale
FallbackLocale(requestLocale) ==
    IF requestLocale = Absent \/ requestLocale \notin locales
    THEN defaultLocale
    ELSE requestLocale

\* mutant of ImportPath: every locale imports the English file
ImportPathAlwaysEn(locale) == <<"messages", "en.json">>

\* locale === 'en' ? import('../../messages/en.json')
\*                 : import(`../../messages/${locale}.json`)
ImportPath(locale) ==
    IF locale = "en" THEN <<"messages", "en.json">>
    ELSE <<"messages", JsonName(locale)>>

resolve(pathLocaleSegment, storedPreference, acceptLanguageHint) ==
    FallbackLocale(RequestLocale(pathLocaleSegment, storedPreference,
                                 acceptLanguageHint))

\* the whole of getRequestConfig: the locale and whether its import resolves
getRequestConfig(pathLocaleSegment, storedPreference, acceptLanguageHint) ==
    LET locale == resolve(pathLocaleSegment, storedPreference,
                          acceptLanguageHint)
    IN  IF ImportPath(locale) \in MessageFiles
        THEN [status |-> "ok", locale |-> locale, file |-> ImportPath(locale)]
        ELSE [status |-> "error", locale |-> locale, file |-> ImportPath(locale)]

-----------------------------------------------------------------------------
(* src/middleware.ts *)

Segments == {"en", "de", "pl", "fr", "about", "_next", "logo.png"}

\* the accept-language hint of a request: absent, supported or unsupported
AcceptHints == {Absent, "pl", "fr"}

Paths == UNION {[1..k -> Segments] : k \in 0..MaxPathLen}

Root == << >>

\* the segments, among Segments, that contain a dot
HasDot(seg) == seg \in {"logo.png"}

\* the segments, among Segments, that start with _next or _vercel
StartsInternal(seg) == seg \in {"_next", "_vercel"}

\* '/'
MatchesRoot(p) == p = Root

\* '/(pl|de|en)/:path*'
MatchesLocalePrefix(p) == Len(p) >= 1 /\ p[1] \in {"pl", "de", "en"}

\* the negative lookahead of the third entry: (?!_next|_vercel|.*\..*)
\* _next and _vercel are looked for at the start of the path, a dot anywhere
ExcludedPattern(p) ==
    \/ Len(p) >= 1 /\ StartsInternal(p[1])
    \/ \E i \in 1..Len(p) : HasDot(p[i])

\* mutant of MatchesOther: the lookahead is lost, every path matches
MatchesOtherNoLookahead(p) == TRUE

\* '/((?!_next|_vercel|.*\\..*).*)'
MatchesOther(p) == ~ExcludedPattern(p)

\* mutant of Matcher: the entry for locale-prefixed paths is missing
MatcherNoPrefixEntry(p) == MatchesRoot(p) \/ MatchesOther(p)

\* config.matcher: the middleware runs when any entry matches
Matcher(p) == MatchesRoot(p) \/ MatchesLocalePrefix(p) \/ MatchesOther(p)

\* mutant of RedirectTarget: the locale prefix is not added
RedirectTargetNoPrefix(locale, p) == p

\* `/path` -> `/en/path`, `/` -> `/en`
RedirectTarget(locale, p) == <<locale>> \o p

\* mutant of NextPreference: a locale-prefixed request leaves the cookie alone
NextPreferenceRedirectOnly(st, locale, old) ==
    IF st \in {"Excluded", "Prefixed"} THEN old ELSE locale

\* the cookie after a request: set whenever the middleware ran
NextPreference(st, locale, old) ==
    IF st = "Excluded" THEN old ELSE locale

\* the state a request is handled in
RouterState(p) ==
    IF ~Matcher(p) THEN "Excluded"
    ELSE IF p = Root THEN "UnprefixedRoot"
    ELSE IF p[1] \in locales THEN "Prefixed"
    ELSE "UnprefixedOther"

\* the locale the middleware settles on for a request it handles
RouterLocale(p, cookie, hint) ==
    IF p # Root /\ p[1] \in locales THEN p[1]
    ELSE resolve(Absent, cookie, hint)

Handle(p, a, h) ==
    LET st == RouterState(p)
        locale == RouterLocale(p, pref, a)
        resp == IF st \in {"UnprefixedRoot", "UnprefixedOther"}
                THEN [kind |-> "redirect", location |-> RedirectTarget(locale, p)]
                ELSE [kind |-> "pass", location |-> p]
    IN  /\ path' = p
        /\ accept' = a
        /\ state' = st
        /\ response' = resp
        /\ prevPref' = pref
        /\ pref' = NextPreference(st, locale, pref)
        /\ prevLocale' = lastLocale
        /\ lastLocale' = IF st = "Excluded" THEN lastLocale ELSE locale
        /\ hops' = h

\* the client asks for a path
Request ==
    /\ \E p \in Paths, a \in AcceptHints : Handle(p, a, 0)
    /\ UNCHANGED <<resolveVars, pathVars, translateVars, loadVars>>

\* the client follows the redirect it was answered with
FollowRedirect ==
    /\ response.kind = "redirect"
    /\ hops < MaxHops
    /\ Handle(response.location, accept, hops + 1)
    /\ UNCHANGED <<resolveVars, pathVars, translateVars, loadVars>>

-----------------------------------------------------------------------------
(* Path Translator: routing.pathnames, toPath and fromPath *)

\* a pathnames entry is a string (one path for every locale) or a mapping
\* from locale to path
StringEntry(p) == [kind |-> "string", path |-> p]
MapEntry(m) == [kind |-> "map", map |-> m]

\* mutant of pathnames: the German and Polish paths are swapped
pathnamesSwapped ==
    ("/" :> StringEntry("/")) @@
    ("/projects" :> MapEntry(("en" :> "/projects") @@ ("de" :> "/realizacje")
                             @@ ("pl" :> "/projekte")))

\* mutant of pathnames: the Polish path is a copy of the German one
pathnamesCopied ==
    ("/" :> StringEntry("/")) @@
    ("/projects" :> MapEntry(("en" :> "/projects") @@ ("de" :> "/projekte")
                             @@ ("pl" :> "/projekte")))

\* routing.pathnames of the tutorial
pathnames ==
    ("/" :> StringEntry("/")) @@
    ("/projects" :> MapEntry(("en" :> "/projects") @@ ("de" :> "/projekte")
                             @@ ("pl" :> "/realizacje")))

\* tables of the same shape: a route customised for two locales but not the
\* third, a table with one more route, and the empty table
Tables ==
    { pathnames,
      ("/" :> StringEntry("/")) @@
      ("/projects" :> MapEntry(("en" :> "/projects") @@ ("de" :> "/projekte"))),
      pathnames @@
      ("/about" :> MapEntry(("de" :> "/ueber-uns") @@ ("pl" :> "/o-nas"))),
      ("/about" :> MapEntry(("en" :> "/about") @@ ("de" :> "/ueber-uns")
                            @@ ("pl" :> "/o-nas"))),
      << >> }

Routes == {"/", "/projects", "/about", "/contact"}

NotFound == [route |-> "<none>", locale |-> Absent]

\* the route/locale pair has a path of its own in the table
Present(t, route, locale) ==
    /\ route \in DOMAIN t
    /\ t[route].kind = "string" \/ locale \in DOMAIN t[route].map

toPath(t, logicalRoute, locale) ==
    IF logicalRoute \notin DOMAIN t THEN logicalRoute
    ELSE IF t[logicalRoute].kind = "string" THEN t[logicalRoute].path
    ELSE IF locale \in DOMAIN t[logicalRoute].map
         THEN t[logicalRoute].map[locale]
         ELSE logicalRoute

\* the pairs of the table whose concrete path is the one looked for
fromPathMatches(t, concretePath) ==
    UNION { { [route |-> r, locale |-> l] :
                l \in { x \in locales : Present(t, r, x)
                                        /\ toPath(t, r, x) = concretePath } } :
            r \in DOMAIN t }

\* fromPath returns a pair the scan finds, or NotFound
fromPath(t, concretePath) ==
    IF fromPathMatches(t, concretePath) = {} THEN {NotFound}
    ELSE fromPathMatches(t, concretePath)

ToPath ==
    /\ \E r \in Routes, l \in locales :
          /\ tpRoute' = r
          /\ tpLocale' = l
          /\ tpOut' = toPath(table, r, l)
    /\ tpDone' = TRUE
    /\ fpDone' = FALSE
    /\ fpOut' = NotFound
    /\ UNCHANGED <<table, routerVars, resolveVars, translateVars, loadVars>>

FromPath ==
    /\ tpDone
    /\ ~fpDone
    /\ fpDone' = TRUE
    /\ fpOut' \in fromPath(table, tpOut)
    /\ UNCHANGED <<table, tpRoute, tpLocale, tpDone, tpOut,
                   routerVars, resolveVars, translateVars, loadVars>>

-----------------------------------------------------------------------------
(* messages/*.json and the lookup of a message *)
(* The strings are written without their diacritics.                       *)

MessagesEn ==
    ("Blog" :> (("title" :> "Latest News & Updates") @@
                ("read_more" :> "Read more"))) @@
    ("Home" :> (("welcome" :> "Welcome to our website!") @@
                ("intro" :> "Discover our services and see how we can help you.") @@
                ("cta_explore" :> "Explore Now") @@
                ("cta_contact" :> "Contact Us")))

MessagesDe ==
    ("Blog" :> (("title" :> "Neuigkeiten & Updates") @@
                ("read_more" :> "Mehr lesen"))) @@
    ("Home" :> (("welcome" :> "Willkommen auf unserer Webseite!") @@
                ("intro" :> "Entdecken Sie unsere Dienstleistungen und sehen Sie, wie wir Ihnen helfen konnen.") @@
                ("cta_explore" :> "Jetzt entdecken") @@
                ("cta_contact" :> "Kontaktieren Sie uns")))

MessagesPl ==
    ("Blog" :> (("title" :> "Najnowsze wiadomosci i aktualizacje") @@
                ("read_more" :> "Czytaj wiecej"))) @@
    ("Home" :> (("welcome" :> "Witamy na naszej stronie!") @@
                ("intro" :> "Odkryj nasze uslugi i zobacz, jak mozemy Ci pomoc.") @@
                ("cta_explore" :> "Odkryj teraz") @@
                ("cta_contact" :> "Skontaktuj sie z nami")))

\* mutant of FileContent: the German and English files hold each other's text
FileContentSwapped(file) ==
    CASE file = <<"messages", "en.json">> -> MessagesDe
      [] file = <<"messages", "de.json">> -> MessagesEn
      [] file = <<"messages", "pl.json">> -> MessagesPl

\* what each message file holds
FileContent(file) ==
    CASE file = <<"messages", "en.json">> -> MessagesEn
      [] file = <<"messages", "de.json">> -> MessagesDe
      [] file = <<"messages", "pl.json">> -> MessagesPl

Namespaces == {"Blog", "blog", "Home", "Shop"}
Keys == {"title", "Title", "read_more", "welcome", "missing_key"}

\* t(key) of useTranslations(namespace): the message, or the key path
translate(bundle, namespace, key) ==
    IF namespace \in DOMAIN bundle /\ key \in DOMAIN bundle[namespace]
    THEN [raised |-> FALSE, text |-> bundle[namespace][key]]
    ELSE [raised |-> FALSE, text |-> namespace \o "." \o key]

Translate ==
    /\ ~tDone
    /\ tDone' = TRUE
    /\ tOut' = translate(FileContent(ImportPath(tLocale)), tNamespace, tKey)
    /\ UNCHANGED <<tLocale, tNamespace, tKey,
                   routerVars, resolveVars, pathVars, loadVars>>

\* the next lookup
NextLookup ==
    /\ tDone
    /\ tDone' = FALSE
    /\ tOut' = [raised |-> FALSE, text |-> ""]
    /\ tLocale' \in locales
    /\ tNamespace' \in Namespaces
    /\ tKey' \in Keys
    /\ UNCHANGED <<routerVars, resolveVars, pathVars, loadVars>>

-----------------------------------------------------------------------------
(* Message Loader: concurrent requests running getRequestConfig, each with *)
(* its own `locale`, sharing the loaded modules                            *)

Requests == 1..MaxRequests

NoModule == << >>

\* let locale = await requestLocale; and the fallback
Begin(r) ==
    /\ pc[r] = "idle"
    /\ \E requestLocale \in Hints :
          loc' = [loc EXCEPT ![r] = FallbackLocale(requestLocale)]
    /\ pc' = [pc EXCEPT ![r] = "import"]
    /\ UNCHANGED <<msgs, cache, raced>>
    /\ UNCHANGED <<routerVars, resolveVars, pathVars, translateVars>>

\* import(...): a module already loaded is returned, else the file is read
Import(r) ==
    /\ pc[r] = "import"
    /\ LET file == ImportPath(loc[r])
       IN  IF file \in MessageFiles /\ cache[file] # NoModule
           THEN /\ msgs' = [msgs EXCEPT ![r] = cache[file]]
                /\ pc' = [pc EXCEPT ![r] = "done"]
           ELSE /\ pc' = [pc EXCEPT ![r] = "loading"]
                /\ UNCHANGED msgs
    /\ UNCHANGED <<loc, cache, raced>>
    /\ UNCHANGED <<routerVars, resolveVars, pathVars, translateVars>>

\* the read succeeds: the module is recorded and the request resumes
LoadOk(r) ==
    /\ pc[r] = "loading"
    /\ LET file == ImportPath(loc[r])
       IN  /\ file \in MessageFiles
           /\ cache' = [cache EXCEPT ![file] = FileContent(file)]
           /\ msgs' = [msgs EXCEPT ![r] = FileContent(file)]
           /\ raced' = (raced \/ \E q \in Requests \ {r} :
                                    pc[q] = "loading" /\ ImportPath(loc[q]) = file)
    /\ pc' = [pc EXCEPT ![r] = "done"]
    /\ UNCHANGED loc
    /\ UNCHANGED <<routerVars, resolveVars, pathVars, translateVars>>

\* the read fails: the import rejects, for this request alone
LoadFail(r) ==
    /\ pc[r] = "loading"
    /\ pc' = [pc EXCEPT ![r] = "failed"]
    /\ UNCHANGED <<loc, msgs, cache, raced>>
    /\ UNCHANGED <<routerVars, resolveVars, pathVars, translateVars>>

-----------------------------------------------------------------------------
(* Specifications *)

InitRouter ==
    /\ pref = Absent
    /\ prevPref = Absent
    /\ path = Root
    /\ accept = Absent
    /\ state = "init"
    /\ response = [kind |-> "none", location |-> Root]
    /\ hops = 0
    /\ lastLocale = Absent
    /\ prevLocale = Absent

InitResolve ==
    /\ rSeg = Absent
    /\ rPref = Absent
    /\ rAccept = Absent
    /\ rDone = FALSE
    /\ rOut = [status |-> "none", locale |-> Absent, file |-> << >>]

InitPaths ==
    /\ table = pathnames
    /\ tpRoute = "/"
    /\ tpLocale = defaultLocale
    /\ tpDone = FALSE
    /\ tpOut = "/"
    /\ fpDone = FALSE
    /\ fpOut = NotFound

InitTranslate ==
    /\ tLocale = defaultLocale
    /\ tNamespace = "Blog"
    /\ tKey = "title"
    /\ tDone = FALSE
    /\ tOut = [raised |-> FALSE, text |-> ""]

InitLoad ==
    /\ pc = [r \in Requests |-> "idle"]
    /\ loc = [r \in Requests |-> Absent]
    /\ msgs = [r \in Requests |-> NoModule]
    /\ cache = [f \in MessageFiles |-> NoModule]
    /\ raced = FALSE

\* the router serving one client
Init == InitRouter /\ InitResolve /\ InitPaths /\ InitTranslate /\ InitLoad

Next == Request \/ FollowRedirect

Spec == Init /\ [][Next]_vars

\* one call of getRequestConfig on inputs drawn from Hints
InitResolveCalls ==
    /\ InitRouter /\ InitPaths /\ InitTranslate /\ InitLoad
    /\ rSeg \in Hints
    /\ rPref \in Hints
    /\ rAccept \in Hints
    /\ rDone = FALSE
    /\ rOut = [status |-> "none", locale |-> Absent, file |-> << >>]

Resolve ==
    /\ ~rDone
    /\ rDone' = TRUE
    /\ rOut' = getRequestConfig(rSeg, rPref, rAccept)
    /\ UNCHANGED <<rSeg, rPref, rAccept,
                   routerVars, pathVars, translateVars, loadVars>>

NextResolve == Resolve

SpecResolve == InitResolveCalls /\ [][NextResolve]_vars

\* toPath and fromPath on a table drawn from Tables
InitPathCalls ==
    /\ InitRouter /\ InitResolve /\ InitTranslate /\ InitLoad
    /\ table \in Tables
    /\ tpRoute = "/"
    /\ tpLocale = defaultLocale
    /\ tpDone = FALSE
    /\ tpOut = "/"
    /\ fpDone = FALSE
    /\ fpOut = NotFound

NextPaths == ToPath \/ FromPath

SpecPaths == InitPathCalls /\ [][NextPaths]_vars

\* message lookups in the three bundles
NextTranslate == Translate \/ NextLookup

SpecTranslate == Init /\ [][NextTranslate]_vars

\* concurrent requests loading their messages
NextLoad ==
    \E r \in Requests : Begin(r) \/ Import(r) \/ LoadOk(r) \/ LoadFail(r)

SpecLoad == Init /\ [][NextLoad]_vars

-----------------------------------------------------------------------------
(* The claims *)

HasLocalePrefix(p) == p # Root /\ p[1] \in locales

\* the first valid source in the order path segment, stored preference,
\* accept-language hint, default
FirstValid(seg, storedPreference, acceptLanguageHint) ==
    IF seg \in locales THEN seg
    ELSE IF storedPreference \in locales THEN storedPreference
    ELSE IF acceptLanguageHint \in locales THEN acceptLanguageHint
    ELSE defaultLocale

\* the bundle resource of a locale
LocaleBundle(locale) ==
    CASE locale = "en" -> MessagesEn
      [] locale = "de" -> MessagesDe
      [] locale = "pl" -> MessagesPl

\* C1: whatever the path segment, the stored preference and the
\* accept-language hint are (absent, supported or unsupported), the
\* resolution raises no error and yields a supported locale.
C1_ResolveTotal ==
    rDone => /\ rOut.status = "ok"
             /\ rOut.locale \in locales

C1_Witness ==
    /\ rDone
    /\ rSeg = "fr" /\ rPref = "xx" /\ rAccept = Absent
    /\ rOut.status = "ok" /\ rOut.locale = "en"

\* C2 as stated: the result is the first valid source in the order path
\* segment, stored preference, accept-language hint, default; so an
\* unsupported path segment falls through to the stored preference.
C2_Original ==
    rDone => rOut.locale = FirstValid(rSeg, rPref, rAccept)

\* C2 as amended: a supported path segment is returned; a path segment that
\* is present but unsupported yields the default locale, whatever the stored
\* preference and the hint are; only without a path segment is the stored
\* preference returned if supported, else the hint if supported, else the
\* default.
C2_ResolvePriority ==
    rDone => rOut.locale =
        IF rSeg \in locales THEN rSeg
        ELSE IF rSeg # Absent THEN defaultLocale
        ELSE IF rPref \in locales THEN rPref
        ELSE IF rAccept \in locales THEN rAccept
        ELSE defaultLocale

C2_Witness ==
    /\ rDone
    /\ rSeg = "fr" /\ rPref = "pl" /\ rAccept = "de"
    /\ rOut.locale = "en"

\* C3 as stated: exactly one router state applies, and a path that matches
\* the excluded pattern is Excluded even when it starts with a supported
\* locale; the response is a redirect or a pass-through.
C3_Original ==
    state # "init" =>
        /\ state \in {"UnprefixedRoot", "Prefixed", "UnprefixedOther", "Excluded"}
        /\ response.kind \in {"redirect", "pass"}
        /\ ExcludedPattern(path) => state = "Excluded"
        /\ (~ExcludedPattern(path) /\ HasLocalePrefix(path)) => state = "Prefixed"

\* C3 as amended: exactly one router state applies, a locale prefix being
\* looked for before the excluded pattern (a path that starts with a
\* supported locale is Prefixed even when it matches the excluded pattern),
\* and the response is a redirect or a pass-through.
C3_OneState ==
    state # "init" =>
        /\ state \in {"UnprefixedRoot", "Prefixed", "UnprefixedOther", "Excluded"}
        /\ (state = "UnprefixedRoot") <=> (path = Root)
        /\ (state = "Prefixed") <=> HasLocalePrefix(path)
        /\ (state = "Excluded") <=>
              (ExcludedPattern(path) /\ ~HasLocalePrefix(path))
        /\ (state = "UnprefixedOther") <=>
              (path # Root /\ ~HasLocalePrefix(path) /\ ~ExcludedPattern(path))
        /\ response.kind \in {"redirect", "pass"}
        /\ (response.kind = "redirect") <=>
              (state \in {"UnprefixedRoot", "UnprefixedOther"})

C3_Witness ==
    /\ state = "Prefixed"
    /\ path = <<"en", "logo.png">>
    /\ response.kind = "pass"

C5_Original ==
    (state # "init" /\ ExcludedPattern(path)) =>
        /\ response = [kind |-> "pass", location |-> path]
        /\ pref = prevPref

\* C5 as amended: a request whose path matches the excluded pattern and
\* does not start with a supported locale passes through unchanged and
\* leaves the cookie as it was.
C5_ExcludedUntouched ==
    (state # "init" /\ ExcludedPattern(path) /\ ~HasLocalePrefix(path)) =>
        /\ state = "Excluded"
        /\ response = [kind |-> "pass", location |-> path]
        /\ pref = prevPref

C5_Witness ==
    /\ state = "Excluded"
    /\ path = <<"fr", "logo.png">>
    /\ prevPref = "de"
    /\ pref = "de"

C7_ToPathFallback ==
    tpDone =>
        /\ tpRoute \notin DOMAIN table => tpOut = tpRoute
        /\ (tpRoute \in DOMAIN table /\ ~Present(table, tpRoute, tpLocale)) =>
              tpOut = tpRoute
        /\ (Present(table, tpRoute, tpLocale) /\ table[tpRoute].kind = "map") =>
              tpOut = table[tpRoute].map[tpLocale]
        /\ (Present(table, tpRoute, tpLocale) /\ table[tpRoute].kind = "string") =>
              tpOut = table[tpRoute].path
        /\ (table = pathnames /\ tpRoute = "/projects" /\ tpLocale = "de") =>
              tpOut = "/projekte"
        /\ (table = pathnames /\ tpRoute = "/projects" /\ tpLocale = "pl") =>
              tpOut = "/realizacje"

C7_Witness ==
    /\ tpDone
    /\ tpRoute = "/projects" /\ tpLocale = "pl"
    /\ "/projects" \in DOMAIN table
    /\ DOMAIN table["/projects"].map = {"en", "de"}
    /\ tpOut = "/projects"

\* C8 as stated: fromPath(toPath(route, locale)) is (route, locale) for
\* every pair of the table.
C8_Original ==
    (fpDone /\ Present(table, tpRoute, tpLocale)) =>
        fpOut = [route |-> tpRoute, locale |-> tpLocale]

\* C8 as amended: for every pair of the table, fromPath(toPath(route,
\* locale)) is a pair of the table with the same concrete path, and it is
\* (route, locale) whenever no other pair of the table has that concrete
\* path: in the tutorial's table for "/projects" under every locale, but
\* not for "/", whose path is the same for all locales.
C8_RoundTrip ==
    (fpDone /\ Present(table, tpRoute, tpLocale)) =>
        /\ fpOut # NotFound
        /\ Present(table, fpOut.route, fpOut.locale)
        /\ toPath(table, fpOut.route, fpOut.locale) = tpOut
        /\ (\A r \in DOMAIN table, l \in locales :
               (Present(table, r, l) /\ toPath(table, r, l) = tpOut) =>
                   (r = tpRoute /\ l = tpLocale)) =>
              fpOut = [route |-> tpRoute, locale |-> tpLocale]
        /\ ("/projects" \in DOMAIN table /\ tpRoute = "/projects") =>
              fpOut = [route |-> tpRoute, locale |-> tpLocale]

C8_Witness ==
    /\ fpDone
    /\ table = pathnames
    /\ tpRoute = "/projects" /\ tpLocale = "de"
    /\ tpOut = "/projekte"
    /\ fpOut = [route |-> "/projects", locale |-> "de"]

C10_LoadRace ==
    /\ \A r \in Requests :
          /\ pc[r] # "idle" => loc[r] \in locales
          /\ pc[r] = "done" => msgs[r] = LocaleBundle(loc[r])
          /\ pc[r] # "done" => msgs[r] = NoModule
    /\ \A l \in locales :
          cache[<<"messages", JsonName(l)>>] \in {NoModule, LocaleBundle(l)}

C10_Witness ==
    /\ raced
    /\ \E r, q, u \in Requests :
          /\ r # q /\ q # u /\ r # u
          /\ loc[r] = "de" /\ loc[q] = "de" /\ loc[u] = "de"
          /\ pc[r] = "failed"
          /\ pc[q] = "done" /\ msgs[q] = MessagesDe
          /\ pc[u] = "done" /\ msgs[u] = MessagesDe

=============================================================================
